---- MODULE Spec2Model ----
(***************************************************************************)
(* A model of src/src/services/database_migration.py: the migration source *)
(* (a directory of .sql files), load_migrations, get_applied_migrations,   *)
(* apply_migration, rollback_migration, the migrate_up and migrate_down    *)
(* loops and get_migration_status.                                         *)
(*                                                                         *)
(* Python strings that the code compares, splits or sorts (file names and  *)
(* versions) are sequences of code points, so that <, split and replace    *)
(* are computed as Python computes them.  File contents are sequences of   *)
(* lines.  None is the empty set and a present value v is {v}.             *)
(***************************************************************************)
EXTENDS Integers, Sequences, FiniteSets, TLC

(* ------------------------------ bounds --------------------------------- *)

\* The most files the migrations directory holds.
MaxFiles == 3

(* ------------------------------ strings -------------------------------- *)

\* Code points of the characters the file names of the model use.
Ord == [dot |-> 46, d0 |-> 48, d1 |-> 49, d2 |-> 50, d3 |-> 51, V |-> 86,
        us |-> 95, a |-> 97, b |-> 98, l |-> 108, q |-> 113, s |-> 115,
        t |-> 116, x |-> 120]

SepStr == <<Ord.us, Ord.us>>
SqlExt == <<Ord.dot, Ord.s, Ord.q, Ord.l>>
TxtExt == <<Ord.dot, Ord.t, Ord.x, Ord.t>>

\* Python's str < str: lexicographic on code points, a proper prefix is less.
RECURSIVE StrLess(_, _)
StrLess(s, t) ==
    IF t = <<>> THEN FALSE
    ELSE IF s = <<>> THEN TRUE
    ELSE IF Head(s) # Head(t) THEN Head(s) < Head(t)
    ELSE StrLess(Tail(s), Tail(t))

StartsWith(s, p) == Len(s) >= Len(p) /\ SubSeq(s, 1, Len(p)) = p

\* str.endswith
EndsWith(s, p) == Len(s) >= Len(p) /\ SubSeq(s, Len(s) - Len(p) + 1, Len(s)) = p

\* str.replace(p, ''): every non-overlapping occurrence of p, left to right.
RECURSIVE RemoveAll(_, _)
RemoveAll(s, p) ==
    IF s = <<>> THEN <<>>
    ELSE IF StartsWith(s, p) THEN RemoveAll(SubSeq(s, Len(p) + 1, Len(s)), p)
    ELSE <<Head(s)>> \o RemoveAll(Tail(s), p)

\* str.split(sep): the parts between the non-overlapping occurrences of sep.
RECURSIVE SplitFrom(_, _, _)
SplitFrom(s, sep, cur) ==
    IF s = <<>> THEN <<cur>>
    ELSE IF StartsWith(s, sep)
         THEN <<cur>> \o SplitFrom(SubSeq(s, Len(sep) + 1, Len(s)), sep, <<>>)
         ELSE SplitFrom(Tail(s), sep, Append(cur, Head(s)))

Split(s, sep) == SplitFrom(s, sep, <<>>)

(* --------------------------- migration source -------------------------- *)

VerEmpty == <<>>
VerV1 == <<Ord.V, Ord.d1>>
VerV10 == <<Ord.V, Ord.d1, Ord.d0>>
VerV2 == <<Ord.V, Ord.d2>>
VerV3 == <<Ord.V, Ord.d3>>

FileName(version, name, ext) == version \o SepStr \o name \o ext

\* The file names a migrations directory of the model may hold: three
\* distinct versions of unequal width, one version twice, an empty version,
\* a name without "__", a name with two "__", and a file that is no .sql.
FilePool ==
    { FileName(VerV1, <<Ord.a>>, SqlExt),
      FileName(VerV1, <<Ord.b>>, SqlExt),
      FileName(VerV10, <<Ord.a>>, SqlExt),
      FileName(VerV2, <<Ord.a>>, SqlExt),
      FileName(VerEmpty, <<Ord.a>>, SqlExt),
      VerV2 \o SqlExt,
      FileName(VerV1, <<Ord.a>> \o SepStr \o <<Ord.b>>, SqlExt),
      FileName(VerV3, <<Ord.a>>, TxtExt) }

UpMarker == "-- UP"
DownMarker == "-- DOWN"

\* What f.read() returns for each file, as its lines ("" is a blank line).
FileContent(filename) ==
    CASE filename = FileName(VerV1, <<Ord.a>>, SqlExt) ->
             <<UpMarker, "CREATE TABLE a;", "", DownMarker, "DROP TABLE a;", "">>
      [] filename = FileName(VerV1, <<Ord.b>>, SqlExt) ->
             <<UpMarker, "CREATE TABLE a;">>
      [] filename = FileName(VerV10, <<Ord.a>>, SqlExt) ->
             <<UpMarker, "CREATE TABLE a;", DownMarker, "DROP TABLE c;">>
      [] filename = FileName(VerV2, <<Ord.a>>, SqlExt) ->
             <<UpMarker, "", DownMarker, "DROP TABLE d;">>
      [] filename = FileName(VerEmpty, <<Ord.a>>, SqlExt) ->
             <<UpMarker, "CREATE TABLE e;", DownMarker, "DROP TABLE e;">>
      [] OTHER -> <<"CREATE TABLE x;">>

(* ------------------------------ data model ----------------------------- *)

MigrationStatus == {"pending", "running", "completed", "failed", "rolled_back"}

None == {}
Some(v) == {v}
Get(opt) == CHOOSE v \in opt : TRUE

\* hashlib.sha256(content).hexdigest(): a function of the content alone,
\* taken to be free of collisions.
calculate_checksum(content) == <<"sha256", content>>

\* Migration(version, name, description, up_sql, down_sql, checksum) with the
\* dataclass defaults applied_at = None, status = PENDING.
Migration(version, name, up_sql, down_sql, checksum) ==
    [version |-> version, name |-> name,
     description |-> <<"Migration", version, name>>,
     up_sql |-> up_sql, down_sql |-> down_sql, checksum |-> checksum,
     applied_at |-> None, status |-> "pending"]

(* ---------------------------- load_migrations -------------------------- *)

\* content.split('-- DOWN') on the lines of a file.
RECURSIVE SplitLines(_, _)
SplitLines(lines, cur) ==
    IF lines = <<>> THEN <<cur>>
    ELSE IF Head(lines) = DownMarker
         THEN <<cur>> \o SplitLines(Tail(lines), <<>>)
         ELSE SplitLines(Tail(lines), Append(cur, Head(lines)))

\* section.replace('-- UP', '')
RECURSIVE DropUpMarker(_)
DropUpMarker(lines) ==
    IF lines = <<>> THEN <<>>
    ELSE IF Head(lines) = UpMarker THEN DropUpMarker(Tail(lines))
    ELSE <<Head(lines)>> \o DropUpMarker(Tail(lines))

\* str.strip(): leading and trailing blank lines go.
RECURSIVE Strip(_)
Strip(lines) ==
    IF lines = <<>> THEN <<>>
    ELSE IF Head(lines) = "" THEN Strip(Tail(lines))
    ELSE IF lines[Len(lines)] = "" THEN Strip(SubSeq(lines, 1, Len(lines) - 1))
    ELSE lines

\* sorted(os.listdir(dir)): the file names in ascending string order.
RECURSIVE SortedNames(_)
SortedNames(S) ==
    IF S = {} THEN <<>>
    ELSE LET least == CHOOSE f \in S : \A g \in S \ {f} : StrLess(f, g)
         IN <<least>> \o SortedNames(S \ {least})

\* sorted(migrations, key=lambda m: m.version) is stable: an element goes
\* after every element whose version is not greater than its own.
RECURSIVE InsertByVersion(_, _)
InsertByVersion(sorted, m) ==
    IF sorted = <<>> THEN <<m>>
    ELSE IF StrLess(m.version, Head(sorted).version) THEN <<m>> \o sorted
    ELSE <<Head(sorted)>> \o InsertByVersion(Tail(sorted), m)

\* Mutant of SortByVersion: the list stays in the order of the file names.
SortByVersion_none(ms) == ms

RECURSIVE SortByVersion(_)
SortByVersion(ms) ==
    IF ms = <<>> THEN <<>>
    ELSE InsertByVersion(SortByVersion(SubSeq(ms, 1, Len(ms) - 1)), ms[Len(ms)])

\* Mutant of ParseFile: a name of more than two parts is taken by its first
\* two.
ParseFile_two_or_more(filename) ==
    IF ~EndsWith(filename, SqlExt) THEN <<>>
    ELSE LET parts == Split(RemoveAll(filename, SqlExt), SepStr)
             sections == SplitLines(FileContent(filename), <<>>)
             up_sql == Strip(DropUpMarker(sections[1]))
             down_sql == IF Len(sections) > 1 THEN Strip(sections[2]) ELSE <<>>
         IN IF Len(parts) < 2 THEN <<>>
            ELSE <<Migration(parts[1], parts[2], up_sql, down_sql,
                             calculate_checksum(up_sql))>>

\* Mutant of ParseFile: the checksum is taken over the up and the down SQL.
ParseFile_checksum_all(filename) ==
    IF ~EndsWith(filename, SqlExt) THEN <<>>
    ELSE LET parts == Split(RemoveAll(filename, SqlExt), SepStr)
             sections == SplitLines(FileContent(filename), <<>>)
             up_sql == Strip(DropUpMarker(sections[1]))
             down_sql == IF Len(sections) > 1 THEN Strip(sections[2]) ELSE <<>>
         IN IF Len(parts) # 2 THEN <<>>
            ELSE <<Migration(parts[1], parts[2], up_sql, down_sql,
                             calculate_checksum(up_sql \o down_sql))>>

\* One pass of the for loop of load_migrations over a file name: the
\* migrations it appends (none when the file is skipped).
ParseFile(filename) ==
    IF ~EndsWith(filename, SqlExt) THEN <<>>
    ELSE LET parts == Split(RemoveAll(filename, SqlExt), SepStr)
             sections == SplitLines(FileContent(filename), <<>>)
             up_sql == Strip(DropUpMarker(sections[1]))
             down_sql == IF Len(sections) > 1 THEN Strip(sections[2]) ELSE <<>>
         IN IF Len(parts) # 2 THEN <<>>
            ELSE <<Migration(parts[1], parts[2], up_sql, down_sql,
                             calculate_checksum(up_sql))>>

RECURSIVE ParseAll(_)
ParseAll(names) ==
    IF names = <<>> THEN <<>>
    ELSE ParseFile(Head(names)) \o ParseAll(Tail(names))

\* load_migrations(): the list it returns; a missing directory gives [].
load_migrations(exists, names) ==
    IF ~exists THEN <<>> ELSE SortByVersion(ParseAll(SortedNames(names)))

\* sorted(...) of a listing that os.listdir gave in an order of its own.
RECURSIVE InsertName(_, _)
InsertName(sorted, f) ==
    IF sorted = <<>> THEN <<f>>
    ELSE IF StrLess(f, Head(sorted)) THEN <<f>> \o sorted
    ELSE <<Head(sorted)>> \o InsertName(Tail(sorted), f)

RECURSIVE SortNames(_)
SortNames(ls) ==
    IF ls = <<>> THEN <<>>
    ELSE InsertName(SortNames(SubSeq(ls, 1, Len(ls) - 1)), ls[Len(ls)])

\* load_migrations() when os.listdir returns the sequence ls.
load_listing(exists, ls) ==
    IF ~exists THEN <<>> ELSE SortByVersion(ParseAll(SortNames(ls)))

\* The orders in which os.listdir may return the files S.
Listings(S) ==
    LET base == SortedNames(S)
    IN { [k \in 1..Len(base) |-> base[p[k]]] : p \in Permutations(1..Len(base)) }

\* Mutant of makedirs: a missing directory is not created.
makedirs_forgotten(exists) == exists

\* Whether the directory exists once load_migrations has returned:
\* os.makedirs creates a missing one.
makedirs(exists) == TRUE

\* get_applied_migrations(): the placeholder returns {} whatever was applied.
get_applied_migrations == <<>>

(* --------------------- apply_migration, rollback_migration ------------- *)

\* What datetime.now() returns.
Now == 1

\* Where the try block of apply_migration or rollback_migration raises:
\* nowhere, at its head (where the SQL is to be executed, before the status is
\* assigned), or at its last statement (the print, after the assignments).
Raise == {"none", "at_execute", "at_report"}

\* Mutant of apply_migration: the except clause forgets status = FAILED.
apply_migration_keeps_status(migration, dry_run, exc) ==
    IF dry_run
    THEN [migration |-> migration, ret |-> TRUE, executed |-> FALSE]
    ELSE IF exc = "none"
    THEN [migration |-> [migration EXCEPT !.status = "completed",
                                          !.applied_at = Some(Now)],
          ret |-> TRUE, executed |-> TRUE]
    ELSE [migration |-> migration, ret |-> FALSE, executed |-> TRUE]

\* Mutant of apply_migration: the dry_run test is missing.
apply_migration_no_dry_run(migration, dry_run, exc) ==
    IF exc = "none"
    THEN [migration |-> [migration EXCEPT !.status = "completed",
                                          !.applied_at = Some(Now)],
          ret |-> TRUE, executed |-> TRUE]
    ELSE [migration |-> [migration EXCEPT !.status = "failed"],
          ret |-> FALSE, executed |-> TRUE]

\* Mutant of apply_migration: a completed migration is not executed again.
apply_migration_guarded(migration, dry_run, exc) ==
    IF dry_run \/ migration.status = "completed"
    THEN [migration |-> migration, ret |-> TRUE, executed |-> FALSE]
    ELSE CASE exc = "none" ->
                [migration |-> [migration EXCEPT !.status = "completed",
                                                 !.applied_at = Some(Now)],
                 ret |-> TRUE, executed |-> TRUE]
           [] exc = "at_execute" ->
                [migration |-> [migration EXCEPT !.status = "failed"],
                 ret |-> FALSE, executed |-> TRUE]
           [] exc = "at_report" ->
                [migration |-> [migration EXCEPT !.status = "failed",
                                                 !.applied_at = Some(Now)],
                 ret |-> FALSE, executed |-> TRUE]

\* apply_migration(migration, dry_run): the migration as it leaves it, the
\* value returned, and whether the try block was entered.
apply_migration(migration, dry_run, exc) ==
    IF dry_run
    THEN [migration |-> migration, ret |-> TRUE, executed |-> FALSE]
    ELSE CASE exc = "none" ->
                [migration |-> [migration EXCEPT !.status = "completed",
                                                 !.applied_at = Some(Now)],
                 ret |-> TRUE, executed |-> TRUE]
           [] exc = "at_execute" ->
                [migration |-> [migration EXCEPT !.status = "failed"],
                 ret |-> FALSE, executed |-> TRUE]
           [] exc = "at_report" ->
                [migration |-> [migration EXCEPT !.status = "failed",
                                                 !.applied_at = Some(Now)],
                 ret |-> FALSE, executed |-> TRUE]

\* Mutant of rollback_migration: the status is never assigned.
rollback_migration_no_status(migration, dry_run, exc) ==
    [migration |-> migration, ret |-> dry_run \/ exc = "none",
     executed |-> ~dry_run]

\* Mutant of rollback_migration: the dry_run test is missing.
rollback_migration_no_dry_run(migration, dry_run, exc) ==
    IF exc = "at_execute"
    THEN [migration |-> migration, ret |-> FALSE, executed |-> TRUE]
    ELSE [migration |-> [migration EXCEPT !.status = "rolled_back"],
          ret |-> exc = "none", executed |-> TRUE]

\* rollback_migration(migration, dry_run): the except clause leaves the
\* status as the try block left it.
rollback_migration(migration, dry_run, exc) ==
    IF dry_run
    THEN [migration |-> migration, ret |-> TRUE, executed |-> FALSE]
    ELSE CASE exc = "none" ->
                [migration |-> [migration EXCEPT !.status = "rolled_back"],
                 ret |-> TRUE, executed |-> TRUE]
           [] exc = "at_execute" ->
                [migration |-> migration, ret |-> FALSE, executed |-> TRUE]
           [] exc = "at_report" ->
                [migration |-> [migration EXCEPT !.status = "rolled_back"],
                 ret |-> FALSE, executed |-> TRUE]

\* The record of one call of apply_migration or rollback_migration: idx is
\* the position of the migration in the run's list (0 for a direct call).
Event(kind, idx, pre, dry_run, exc, r) ==
    [kind |-> kind, idx |-> idx, pre |-> pre, post |-> r.migration,
     dry_run |-> dry_run, exc |-> IF r.executed THEN exc ELSE "none",
     executed |-> r.executed, ret |-> r.ret]

(* ------------------------------ migrate_up ----------------------------- *)

\* "if migration.version in applied"
SkipApplied(version, appl) == version \in DOMAIN appl

\* "if target_version and migration.version > target_version": an empty
\* string is falsy, as None is.
PastTarget(target, version) ==
    /\ target # None
    /\ Get(target) # <<>>
    /\ StrLess(Get(target), version)

\* Mutant of AfterFailure: the loop goes on to the next migration.
AfterFailure_continue == "continue"

\* What the loop does after apply_migration returned False.
AfterFailure == "break"

(* ----------------------------- migrate_down ---------------------------- *)

\* applied.values()
DictValues(d) == {d[k] : k \in DOMAIN d}

\* sorted(applied.values(), key=lambda m: m.version, reverse=True)
RECURSIVE SortedDescending(_)
SortedDescending(S) ==
    IF S = {} THEN <<>>
    ELSE LET top == CHOOSE m \in S : \A n \in S : ~StrLess(m.version, n.version)
         IN <<top>> \o SortedDescending(S \ {top})

\* Python's list[:n]: a negative n counts from the end.
Slice(ls, n) ==
    IF n >= 0
    THEN SubSeq(ls, 1, IF n < Len(ls) THEN n ELSE Len(ls))
    ELSE SubSeq(ls, 1, IF Len(ls) + n > 0 THEN Len(ls) + n ELSE 0)

\* What the loop of migrate_down does after rollback_migration returned False.
AfterRollbackFailure == "break"

(* ------------------------- get_migration_status ------------------------ *)

\* max(applied.keys()) and the like: the greatest string of a set.
MaxStr(S) == CHOOSE v \in S : \A w \in S \ {v} : StrLess(w, v)

\* [m.version for m in ms]
Versions(ms) == [k \in 1..Len(ms) |-> ms[k].version]

NotApplied(appl, m) == m.version \notin DOMAIN appl

\* Mutant of get_migration_status: latest_version is all_migrations[0].version.
get_migration_status_first(all_migrations, appl) ==
    LET pending == SelectSeq(all_migrations, LAMBDA m : NotApplied(appl, m))
    IN [total_migrations |-> Len(all_migrations),
        applied_count |-> Cardinality(DOMAIN appl),
        pending_count |-> Len(pending),
        current_version |-> IF DOMAIN appl # {} THEN Some(MaxStr(DOMAIN appl))
                            ELSE None,
        latest_version |-> IF all_migrations # <<>>
                           THEN Some(all_migrations[1].version) ELSE None,
        pending_migrations |-> Versions(pending)]

\* The dictionary get_migration_status returns.
get_migration_status(all_migrations, appl) ==
    LET pending == SelectSeq(all_migrations, LAMBDA m : NotApplied(appl, m))
    IN [total_migrations |-> Len(all_migrations),
        applied_count |-> Cardinality(DOMAIN appl),
        pending_count |-> Len(pending),
        current_version |-> IF DOMAIN appl # {} THEN Some(MaxStr(DOMAIN appl))
                            ELSE None,
        latest_version |-> IF all_migrations # <<>>
                           THEN Some(all_migrations[Len(all_migrations)].version)
                           ELSE None,
        pending_migrations |-> Versions(pending)]

(* -------------------------------- state -------------------------------- *)

VARIABLES
    dirExists,       \* os.path.exists(self.migrations_dir)
    files,           \* os.listdir(self.migrations_dir)
    op,              \* the operation in progress, or the last one that returned
    pc,              \* "idle", or "loop" inside the for loop of a bulk run
    dry_run,         \* its dry_run argument
    target_version,  \* migrate_up's target_version argument
    migration,       \* the Migration passed to a direct apply or rollback
    steps,           \* migrate_down's steps argument
    migrations,      \* the list load_migrations returned; in migrate_down,
                     \* migrations_to_rollback; its objects are mutated in place
    applied,         \* the run's local applied mapping
    i,               \* the position in migrations the loop considers next
    successful,
    failed,
    ledger0,         \* what get_applied_migrations() gave as the call began
    trace,           \* the apply/rollback calls of this operation, in order
    listing,         \* what os.listdir returned to a load_migrations() call
    existed,         \* what os.path.exists gave to the operation's load
    report,          \* what get_migration_status returned
    prior_applied,   \* the versions the migrate_up run before a migrate_up,
                     \* migrate_down or get_migration_status applied
    sessions,        \* AuthenticationService.sessions
    issued,          \* the data of the ids that create_session returned and
                     \* that were not revoked since
    auth_call        \* the last call of the session store and what it returned

vars == <<dirExists, files, op, pc, dry_run, target_version, migration, steps,
          migrations, applied, i, successful, failed, ledger0, trace, listing,
          existed, report, prior_applied, sessions, issued, auth_call>>

\* The variables of the session store of the authentication service.
authvars == <<sessions, issued, auth_call>>

\* The Migration objects a caller builds by hand, as the tests do: with the
\* checksum of the up SQL, or with a checksum of the caller's own
\* (checksum="abc123").
CallerMigrations ==
    { [Migration(VerV1, <<Ord.a>>, body[1], body[2], calculate_checksum(body[1]))
          EXCEPT !.status = st] :
        body \in { <<(<<"CREATE TABLE a;">>), (<<"DROP TABLE a;">>)>>,
                   <<(<<>>), (<<"DROP TABLE a;">>)>>,
                   <<(<<"CREATE TABLE a;">>), (<<>>)>> },
        st \in MigrationStatus }
    \cup
    { [Migration(VerV1, <<Ord.a>>, <<"CREATE TABLE a;">>, <<"DROP TABLE a;">>,
                 <<"abc123">>)
          EXCEPT !.status = st] : st \in {"pending", "completed"} }

Targets == {None} \cup {Some(v) : v \in {VerEmpty, VerV1, VerV10, VerV2}}

\* The steps arguments of migrate_down.
StepsArgs == {-1, 0, 1, 2}

Init ==
    /\ dirExists \in BOOLEAN
    /\ files \in {S \in SUBSET FilePool : Cardinality(S) <= MaxFiles}
    /\ (~dirExists => files = {})
    /\ op = "none"
    /\ pc = "idle"
    /\ dry_run = FALSE
    /\ target_version = None
    /\ migration = None
    /\ migrations = <<>>
    /\ applied = <<>>
    /\ i = 1
    /\ successful = 0
    /\ failed = 0
    /\ ledger0 = get_applied_migrations
    /\ trace = <<>>
    /\ steps = 0
    /\ listing = <<>>
    /\ existed = TRUE
    /\ report = None
    /\ prior_applied = <<>>
    /\ sessions = <<>>
    /\ issued = <<>>
    /\ auth_call = None

\* The values the locals of migrate_up hold outside a run.
NoRun ==
    /\ target_version' = None
    /\ migrations' = <<>>
    /\ applied' = <<>>
    /\ i' = 1
    /\ successful' = 0
    /\ failed' = 0
    /\ steps' = 0

\* What an operation that is no load, status or migrate_down leaves in the
\* variables of those.
NoQuery ==
    /\ listing' = <<>>
    /\ report' = None
    /\ prior_applied' = <<>>

\* The caller builds a Migration, for the direct calls that follow.
Construct(mg) ==
    /\ UNCHANGED authvars
    /\ pc = "idle"
    /\ op' = "construct"
    /\ dry_run' = FALSE
    /\ migration' = Some(mg)
    /\ trace' = <<>>
    /\ ledger0' = get_applied_migrations
    /\ NoRun
    /\ NoQuery
    /\ existed' = TRUE
    /\ UNCHANGED <<dirExists, files, pc>>

\* A direct call of apply_migration or rollback_migration (kind) on the
\* caller's Migration; r is what the call gives.
Direct(kind, dry, exc, r) ==
    /\ UNCHANGED authvars
    /\ pc = "idle"
    /\ migration # None
    /\ op' = kind
    /\ dry_run' = dry
    /\ migration' = Some(r.migration)
    /\ trace' = <<Event(kind, 0, Get(migration), dry, exc, r)>>
    /\ ledger0' = get_applied_migrations
    /\ NoRun
    /\ NoQuery
    /\ existed' = TRUE
    /\ UNCHANGED <<dirExists, files, pc>>

ApplyMigration(dry, exc) ==
    /\ migration # None
    /\ Direct("apply_migration", dry, exc,
              apply_migration(Get(migration), dry, exc))

RollbackMigration(dry, exc) ==
    /\ migration # None
    /\ Direct("rollback_migration", dry, exc,
              rollback_migration(Get(migration), dry, exc))

\* The versions the calls of tr applied: no dry run, and returned True.
AppliedBy(tr) ==
    Versions([k \in 1..Len(SelectSeq(tr, LAMBDA e :
                  e.kind = "apply_migration" /\ e.executed /\ e.ret)) |->
              SelectSeq(tr, LAMBDA e :
                  e.kind = "apply_migration" /\ e.executed /\ e.ret)[k].post])

\* What the operation that starts finds applied by the operation before it,
\* when that was a migrate_up run.
PriorRun == IF op = "migrate_up" THEN AppliedBy(trace) ELSE <<>>

\* migrate_up(target, dry) down to the head of its for loop: load_migrations
\* (which creates a missing directory) and get_applied_migrations.  loaded is
\* what load_migrations() returns in the current state.
MigrateUpStart(loaded, target, dry) ==
    /\ UNCHANGED authvars
    /\ pc = "idle"
    /\ op' = "migrate_up"
    /\ pc' = "loop"
    /\ dry_run' = dry
    /\ target_version' = target
    /\ migrations' = loaded
    /\ existed' = dirExists
    /\ dirExists' = makedirs(dirExists)
    /\ applied' = get_applied_migrations
    /\ ledger0' = get_applied_migrations
    /\ i' = 1
    /\ successful' = 0
    /\ failed' = 0
    /\ steps' = 0
    /\ trace' = <<>>
    /\ migration' = None
    /\ listing' = <<>>
    /\ report' = None
    /\ prior_applied' = PriorRun
    /\ UNCHANGED files

\* One pass of the for loop of migrate_up, or its end and the return.
MigrateUpStep(exc) ==
    /\ UNCHANGED authvars
    /\ pc = "loop"
    /\ op = "migrate_up"
    /\ IF i > Len(migrations)
       THEN /\ pc' = "idle"
            /\ UNCHANGED <<migrations, i, successful, failed, trace>>
       ELSE LET mg == migrations[i]
                r == apply_migration(mg, dry_run, exc)
            IN IF SkipApplied(mg.version, applied)
               THEN /\ i' = i + 1
                    /\ UNCHANGED <<pc, migrations, successful, failed, trace>>
               ELSE IF PastTarget(target_version, mg.version)
               THEN /\ pc' = "idle"
                    /\ UNCHANGED <<migrations, i, successful, failed, trace>>
               ELSE /\ migrations' = [migrations EXCEPT ![i] = r.migration]
                    /\ trace' = Append(trace, Event("apply_migration", i, mg,
                                                    dry_run, exc, r))
                    /\ IF r.ret
                       THEN /\ successful' = successful + 1
                            /\ i' = i + 1
                            /\ UNCHANGED <<pc, failed>>
                       ELSE /\ failed' = failed + 1
                            /\ IF AfterFailure = "break"
                               THEN pc' = "idle" /\ i' = i
                               ELSE pc' = pc /\ i' = i + 1
                            /\ UNCHANGED successful
    /\ UNCHANGED <<dirExists, files, op, dry_run, target_version, migration,
                   applied, ledger0, steps, listing, existed, report,
                   prior_applied>>

\* migrate_down(n, dry) down to the head of its for loop.
MigrateDownStart(n, dry) ==
    /\ UNCHANGED authvars
    /\ pc = "idle"
    /\ op' = "migrate_down"
    /\ pc' = "loop"
    /\ dry_run' = dry
    /\ steps' = n
    /\ applied' = get_applied_migrations
    /\ ledger0' = get_applied_migrations
    /\ migrations' = Slice(SortedDescending(DictValues(get_applied_migrations)), n)
    /\ i' = 1
    /\ successful' = 0
    /\ failed' = 0
    /\ trace' = <<>>
    /\ prior_applied' = PriorRun
    /\ target_version' = None
    /\ migration' = None
    /\ listing' = <<>>
    /\ report' = None
    /\ existed' = TRUE
    /\ UNCHANGED <<dirExists, files>>

\* One pass of the for loop of migrate_down, or its end and the return.
MigrateDownStep(exc) ==
    /\ UNCHANGED authvars
    /\ pc = "loop"
    /\ op = "migrate_down"
    /\ IF i > Len(migrations)
       THEN /\ pc' = "idle"
            /\ UNCHANGED <<migrations, i, successful, failed, trace>>
       ELSE LET mg == migrations[i]
                r == rollback_migration(mg, dry_run, exc)
            IN /\ migrations' = [migrations EXCEPT ![i] = r.migration]
               /\ trace' = Append(trace, Event("rollback_migration", i, mg,
                                               dry_run, exc, r))
               /\ IF r.ret
                  THEN /\ successful' = successful + 1
                       /\ i' = i + 1
                       /\ UNCHANGED <<pc, failed>>
                  ELSE /\ failed' = failed + 1
                       /\ IF AfterRollbackFailure = "break"
                          THEN pc' = "idle" /\ i' = i
                          ELSE pc' = pc /\ i' = i + 1
                       /\ UNCHANGED successful
    /\ UNCHANGED <<dirExists, files, op, dry_run, target_version, migration,
                   applied, ledger0, steps, listing, existed, report,
                   prior_applied>>

\* load_migrations() called by the caller; os.listdir returns ls.
LoadMigrations(ls) ==
    /\ UNCHANGED authvars
    /\ pc = "idle"
    /\ op' = "load_migrations"
    /\ listing' = ls
    /\ existed' = dirExists
    /\ dirExists' = makedirs(dirExists)
    /\ migrations' = load_listing(dirExists, ls)
    /\ dry_run' = FALSE
    /\ migration' = None
    /\ trace' = <<>>
    /\ ledger0' = get_applied_migrations
    /\ target_version' = None
    /\ applied' = <<>>
    /\ i' = 1
    /\ successful' = 0
    /\ failed' = 0
    /\ steps' = 0
    /\ report' = None
    /\ prior_applied' = <<>>
    /\ UNCHANGED <<files, pc>>

\* get_migration_status()
GetMigrationStatus ==
    /\ UNCHANGED authvars
    /\ pc = "idle"
    /\ op' = "get_migration_status"
    /\ existed' = dirExists
    /\ dirExists' = makedirs(dirExists)
    /\ migrations' = load_migrations(dirExists, files)
    /\ applied' = get_applied_migrations
    /\ ledger0' = get_applied_migrations
    /\ report' = Some(get_migration_status(load_migrations(dirExists, files),
                                           get_applied_migrations))
    /\ dry_run' = FALSE
    /\ migration' = None
    /\ trace' = <<>>
    /\ target_version' = None
    /\ i' = 1
    /\ successful' = 0
    /\ failed' = 0
    /\ steps' = 0
    /\ listing' = <<>>
    /\ prior_applied' = PriorRun
    /\ UNCHANGED <<files, pc>>

Next ==
    \/ \E mg \in CallerMigrations : Construct(mg)
    \/ \E dry \in BOOLEAN, exc \in Raise : ApplyMigration(dry, exc)
    \/ \E dry \in BOOLEAN, exc \in Raise : RollbackMigration(dry, exc)
    \/ LET loaded == load_migrations(dirExists, files)
       IN \E target \in Targets, dry \in BOOLEAN :
              MigrateUpStart(loaded, target, dry)
    \/ \E exc \in Raise : MigrateUpStep(exc)
    \/ \E n \in StepsArgs, dry \in BOOLEAN : MigrateDownStart(n, dry)
    \/ \E exc \in Raise : MigrateDownStep(exc)
    \/ \E ls \in Listings(files) : LoadMigrations(ls)
    \/ GetMigrationStatus

Spec == Init /\ [][Next]_vars

(* ------------ the operations over a given applied mapping -------------- *)

\* The versions a given applied mapping may hold: three that the directory
\* may define and one (V3) that it never defines.
GivenVersions == {VerV1, VerV10, VerV2, VerV3}

\* The mappings of type Dict[str, Migration] that a get_applied_migrations()
\* which reads a tracking table may return to migrate_down and to
\* get_migration_status.
AppliedGiven ==
    { [v \in S |->
          [Migration(v, <<Ord.a>>, <<"CREATE TABLE a;">>, <<"DROP TABLE a;">>,
                     calculate_checksum(<<"CREATE TABLE a;">>))
              EXCEPT !.status = "completed", !.applied_at = Some(Now)]] :
      S \in SUBSET GivenVersions }

InitGiven ==
    /\ dirExists = TRUE
    /\ files \in {S \in SUBSET FilePool : Cardinality(S) <= MaxFiles}
    /\ applied \in AppliedGiven
    /\ op = "none"
    /\ pc = "idle"
    /\ dry_run = FALSE
    /\ target_version = None
    /\ migration = None
    /\ migrations = <<>>
    /\ i = 1
    /\ successful = 0
    /\ failed = 0
    /\ ledger0 = applied
    /\ trace = <<>>
    /\ steps = 0
    /\ listing = <<>>
    /\ existed = TRUE
    /\ report = None
    /\ prior_applied = <<>>
    /\ sessions = <<>>
    /\ issued = <<>>
    /\ auth_call = None

\* migrate_down(n, dry) from the sorted(...)[:steps] of the given mapping down
\* to the head of its for loop.
MigrateDownGiven(n, dry) ==
    /\ UNCHANGED authvars
    /\ pc = "idle"
    /\ op' = "migrate_down"
    /\ pc' = "loop"
    /\ dry_run' = dry
    /\ steps' = n
    /\ ledger0' = applied
    /\ migrations' = Slice(SortedDescending(DictValues(applied)), n)
    /\ i' = 1
    /\ successful' = 0
    /\ failed' = 0
    /\ trace' = <<>>
    /\ report' = None
    /\ UNCHANGED <<dirExists, files, applied, target_version, migration,
                   listing, existed, prior_applied>>

\* get_migration_status() from its load_migrations() and the given mapping.
GetMigrationStatusGiven ==
    /\ UNCHANGED authvars
    /\ pc = "idle"
    /\ op' = "get_migration_status"
    /\ migrations' = load_migrations(dirExists, files)
    /\ ledger0' = applied
    /\ report' = Some(get_migration_status(load_migrations(dirExists, files),
                                           applied))
    /\ dry_run' = FALSE
    /\ trace' = <<>>
    /\ i' = 1
    /\ successful' = 0
    /\ failed' = 0
    /\ steps' = 0
    /\ UNCHANGED <<dirExists, files, applied, pc, target_version, migration,
                   listing, existed, prior_applied>>

NextGiven ==
    \/ \E n \in StepsArgs, dry \in BOOLEAN : MigrateDownGiven(n, dry)
    \/ \E exc \in Raise : MigrateDownStep(exc)
    \/ GetMigrationStatusGiven

SpecGiven == InitGiven /\ [][NextGiven]_vars

(* ------------- the session store of AuthenticationService -------------- *)

\* How many session ids secrets.token_urlsafe(32) may return.
MaxSessions == 2

\* The session ids secrets.token_urlsafe(32) may return.
SessionIds == {<<"token_urlsafe", k>> : k \in 1..MaxSessions}

\* An id that create_session never returned.
UnknownId == <<"nonexistent_session_id", 0>>

UserIds == {"user_123", "user_456"}

\* The metadata arguments: None, an empty dictionary, a dictionary (a set of
\* key-value pairs).
MetadataArgs == {None, Some({}), Some({<<"ip", "192.168.1.1">>})}

\* What datetime.utcnow().isoformat() may return.
Times == {Now, Now + 1}

\* "metadata or {}"
MetadataOr(metadata) ==
    IF metadata = None \/ Get(metadata) = {} THEN {} ELSE Get(metadata)

\* create_session: the store once self.sessions[session_id] is assigned.
create_session(store, session_id, user_id, metadata, utcnow) ==
    [k \in DOMAIN store \cup {session_id} |->
        IF k = session_id
        THEN [user_id |-> user_id, created_at |-> utcnow,
              metadata |-> MetadataOr(metadata)]
        ELSE store[k]]

\* get_session: self.sessions.get(session_id)
get_session(store, session_id) ==
    IF session_id \in DOMAIN store THEN Some(store[session_id]) ELSE None

\* Mutant of revoke_session: True is returned and the session is kept.
revoke_session_keeps(store, session_id) ==
    [sessions |-> store, ret |-> session_id \in DOMAIN store]

\* revoke_session: the store as it leaves it, and the value returned.
revoke_session(store, session_id) ==
    IF session_id \in DOMAIN store
    THEN [sessions |-> [k \in DOMAIN store \ {session_id} |-> store[k]],
          ret |-> TRUE]
    ELSE [sessions |-> store, ret |-> FALSE]

\* The variables of the migration service.
migvars == <<dirExists, files, op, pc, dry_run, target_version, migration,
             steps, migrations, applied, i, successful, failed, ledger0,
             trace, listing, existed, report, prior_applied>>

\* The record of a call of the session store: before is self.sessions as
\* the call began.
AuthCall(name, session_id, ret, before) ==
    Some([name |-> name, session_id |-> session_id, ret |-> ret,
          before |-> before])

CreateSession(session_id, user_id, metadata, utcnow) ==
    /\ sessions' = create_session(sessions, session_id, user_id, metadata,
                                  utcnow)
    /\ issued' = [k \in DOMAIN issued \cup {session_id} |->
                    IF k = session_id
                    THEN <<user_id, MetadataOr(metadata), utcnow>>
                    ELSE issued[k]]
    /\ auth_call' = AuthCall("create_session", session_id, session_id, sessions)
    /\ UNCHANGED migvars

GetSession(session_id) ==
    /\ auth_call' = AuthCall("get_session", session_id,
                             get_session(sessions, session_id), sessions)
    /\ UNCHANGED <<sessions, issued>>
    /\ UNCHANGED migvars

RevokeSession(session_id) ==
    /\ sessions' = revoke_session(sessions, session_id).sessions
    /\ issued' = [k \in DOMAIN issued \ {session_id} |-> issued[k]]
    /\ auth_call' = AuthCall("revoke_session", session_id,
                             revoke_session(sessions, session_id).ret, sessions)
    /\ UNCHANGED migvars

InitAuth == Init /\ ~dirExists

NextAuth ==
    \/ \E session_id \in SessionIds, user_id \in UserIds,
          metadata \in MetadataArgs, utcnow \in Times :
          CreateSession(session_id, user_id, metadata, utcnow)
    \/ \E session_id \in SessionIds \cup {UnknownId} : GetSession(session_id)
    \/ \E session_id \in SessionIds \cup {UnknownId} : RevokeSession(session_id)

SpecAuth == InitAuth /\ [][NextAuth]_vars

(* ------------------------------- claims -------------------------------- *)

Events == 1..Len(trace)
Failures == {k \in Events : ~trace[k].ret}
Successes == {k \in Events : trace[k].ret}

\* The ledger without the record of one version.
Without(ledger, version) ==
    [v \in DOMAIN ledger \ {version} |-> ledger[v]]

\* C1: in a migrate_up run at most one apply fails; once one has failed the
\* run has returned, the failing apply is the last call of the run (nothing
\* later in version order was handed on), failCount is 1 and successCount is
\* the number of applies before the failure.
C1_HaltOnFirstFailure ==
    op = "migrate_up" =>
        /\ failed = Cardinality(Failures)
        /\ successful = Cardinality(Successes)
        /\ failed <= 1
        /\ \A k \in Failures :
              /\ pc = "idle"
              /\ k = Len(trace)
              /\ successful = k - 1
              /\ \A j \in Events : trace[j].idx <= trace[k].idx

\* C1 witness: three pending migrations, the second apply failed: the run
\* returned (1, 1) and the third migration was never attempted.
C1_Witness ==
    /\ op = "migrate_up" /\ pc = "idle" /\ ~dry_run
    /\ Len(migrations) = 3
    /\ successful = 1 /\ failed = 1
    /\ Len(trace) = 2 /\ trace[1].idx = 1 /\ trace[2].idx = 2
    /\ migrations[3].status = "pending"

\* C2: in a migrate_up run given a target_version no migration of a greater
\* version is handed to apply_migration, and when the run has returned
\* without a failure every pending migration whose version is not greater
\* than the target has been.
C2_TargetBound ==
    (op = "migrate_up" /\ target_version # None) =>
        /\ \A k \in Events :
              ~StrLess(Get(target_version), trace[k].pre.version)
        /\ (pc = "idle" /\ failed = 0) =>
              \A j \in 1..Len(migrations) :
                 ( /\ migrations[j].version \notin DOMAIN ledger0
                   /\ ~StrLess(Get(target_version), migrations[j].version) )
                 => \E k \in Events : trace[k].idx = j

\* The statement of C2 for the targets Python takes as true (the non-empty
\* strings).
TargetBoundNonEmpty ==
    (target_version # None /\ Get(target_version) # <<>>) => C2_TargetBound

\* C3: migrate_up hands no migration to apply_migration whose version is in
\* the applied ledger, and the versions it hands on within one run are
\* strictly ascending.
C3_SkipAppliedStrictlyAscending ==
    op = "migrate_up" =>
        /\ \A k \in Events :
              trace[k].pre.version \notin DOMAIN get_applied_migrations
        /\ \A j, k \in Events :
              j < k => StrLess(trace[j].pre.version, trace[k].pre.version)

\* C4: after an apply that is no dry run and whose execution succeeded, the
\* migration is completed, its applied_at is set, and the applied ledger
\* holds a record of its version with its checksum.
C4_ApplyRecordsLedger ==
    \A k \in Events :
        ( /\ trace[k].kind = "apply_migration"
          /\ ~trace[k].dry_run
          /\ trace[k].exc = "none" )
        => /\ trace[k].post.status = "completed"
           /\ trace[k].post.applied_at # None
           /\ trace[k].post.version \in DOMAIN get_applied_migrations
           /\ get_applied_migrations[trace[k].post.version].checksum
                 = trace[k].post.checksum

\* C5: an apply that is no dry run and whose execution raised returns
\* failure and leaves the migration failed and the applied ledger as it was;
\* it was executed once, and no later call of the operation takes the same
\* migration again (a bulk run ends with it).
C5_FailedApplyNoRetry ==
    \A k \in Events :
        ( /\ trace[k].kind = "apply_migration"
          /\ ~trace[k].dry_run
          /\ trace[k].exc # "none" )
        => /\ ~trace[k].ret
           /\ trace[k].post.status = "failed"
           /\ get_applied_migrations = ledger0
           /\ k = Len(trace)
           /\ \A j \in Events \ {k} : trace[j].idx # trace[k].idx
           /\ IF op = "migrate_up"
              THEN migrations[trace[k].idx].status = "failed" /\ pc = "idle"
              ELSE Get(migration).status = "failed"

\* C5 witness: a direct apply of a pending migration whose execution raised.
C5_Witness ==
    /\ op = "apply_migration" /\ ~dry_run
    /\ trace[1].exc = "at_execute"
    /\ trace[1].pre.status = "pending"
    /\ ~trace[1].ret
    /\ Get(migration).status = "failed"

\* C6: a dry-run apply of a migration with a non-empty up_sql returns
\* success, executes nothing and leaves the migration (its status and
\* applied_at) and the applied ledger as they were.
C6_DryRunApplyFrame ==
    \A k \in Events :
        ( /\ trace[k].kind = "apply_migration"
          /\ trace[k].dry_run
          /\ trace[k].pre.up_sql # <<>> )
        => /\ trace[k].ret
           /\ ~trace[k].executed
           /\ trace[k].post.status = trace[k].pre.status
           /\ trace[k].post.applied_at = trace[k].pre.applied_at
           /\ get_applied_migrations = ledger0
           /\ (op = "apply_migration" => migration = Some(trace[k].pre))

\* C6 witness: a direct dry-run apply of a pending, well-formed migration
\* that is still pending and unapplied.
C6_Witness ==
    /\ op = "apply_migration" /\ dry_run
    /\ trace[1].pre.up_sql # <<>>
    /\ trace[1].pre.status = "pending"
    /\ trace[1].ret
    /\ Get(migration).status = "pending"
    /\ Get(migration).applied_at = None

\* C7: a dry-run apply returns success only when up_sql is not empty.
C7_DryRunApplyValidates ==
    \A k \in Events :
        ( /\ trace[k].kind = "apply_migration"
          /\ trace[k].dry_run
          /\ trace[k].ret )
        => trace[k].pre.up_sql # <<>>

\* C8: a rollback of a migration with an empty down_sql fails before
\* anything is executed and leaves the status and the applied ledger as
\* they were.
C8_NoRollbackDefined ==
    \A k \in Events :
        ( /\ trace[k].kind = "rollback_migration"
          /\ trace[k].pre.down_sql = <<>> )
        => /\ ~trace[k].ret
           /\ ~trace[k].executed
           /\ trace[k].post.status = trace[k].pre.status
           /\ get_applied_migrations = ledger0

C10_DryRunRollbackFrame ==
    \A k \in Events :
        ( /\ trace[k].kind = "rollback_migration"
          /\ trace[k].dry_run )
        => /\ trace[k].ret
           /\ ~trace[k].executed
           /\ trace[k].post = trace[k].pre
           /\ migration = Some(trace[k].pre)
           /\ get_applied_migrations = ledger0

\* C10 witness: a direct dry-run rollback of a completed migration that is
\* still completed.
C10_Witness ==
    /\ op = "rollback_migration" /\ dry_run
    /\ trace[1].pre.status = "completed"
    /\ trace[1].ret
    /\ Get(migration).status = "completed"

\* The set of the elements of a sequence.
Range(seq) == {seq[k] : k \in DOMAIN seq}

\* C11: migrate_down rolls back in strictly descending version order from the
\* highest applied version and takes only the steps highest: when the
\* operation before applied two versions, migrate_down(steps=1) has rolled
\* back the higher one alone and the lower one is still in the ledger.
C11_MigrateDownHighestFirst ==
    (op = "migrate_down" /\ pc = "idle" /\ ~dry_run) =>
        /\ \A j, k \in Events :
              j < k => StrLess(trace[k].pre.version, trace[j].pre.version)
        /\ (steps = 1 /\ Cardinality(Range(prior_applied)) = 2) =>
              /\ Len(trace) = 1
              /\ trace[1].kind = "rollback_migration"
              /\ trace[1].pre.version = MaxStr(Range(prior_applied))
              /\ \A v \in Range(prior_applied) \ {MaxStr(Range(prior_applied))} :
                    v \in DOMAIN get_applied_migrations

\* C13: a dry-run migrate_up or migrate_down reports no failure whatever the
\* executor would do, executes nothing, and leaves every migration and the
\* applied ledger as they were before the run.
C13_DryRunBulkFrame ==
    (op \in {"migrate_up", "migrate_down"} /\ dry_run) =>
        /\ failed = 0
        /\ successful = Len(trace)
        /\ \A k \in Events :
              /\ trace[k].ret
              /\ ~trace[k].executed
              /\ trace[k].post = trace[k].pre
        /\ get_applied_migrations = ledger0

\* C13 witness: a dry-run migrate_up that returned three successes and left
\* its three migrations pending.
C13_Witness ==
    /\ op = "migrate_up" /\ dry_run /\ pc = "idle"
    /\ successful = 3
    /\ failed = 0
    /\ Len(trace) = 3
    /\ \A k \in Events : trace[k].post.status = "pending"

\* C15: the list load_migrations returns never holds two migrations of the
\* same version, whatever the files are.
C15_LoadVersionsUnique ==
    op = "load_migrations" =>
        \A j, k \in 1..Len(migrations) :
            j # k => migrations[j].version # migrations[k].version

\* C16: load_migrations returns the migrations in ascending string order of
\* their versions (V1 < V10 < V2), the same list whatever order os.listdir
\* gave; the target comparison of migrate_up and the latest_version of
\* get_migration_status follow that same order.
C16_LoadSortedByVersion ==
    /\ op = "load_migrations" =>
          /\ \A j, k \in 1..Len(migrations) :
                j < k => ~StrLess(migrations[k].version, migrations[j].version)
          /\ migrations = load_migrations(existed, files)
    /\ (op = "migrate_up" /\ target_version \notin {None, Some(<<>>)}) =>
          \A k \in Events : ~StrLess(Get(target_version), trace[k].pre.version)
    /\ (op = "get_migration_status" /\ migrations # <<>>) =>
          \A k \in 1..Len(migrations) :
              ~StrLess(Get(Get(report).latest_version), migrations[k].version)

\* C16 witness: os.listdir gave V2, V1, V10 and the list returned is
\* V1, V10, V2.
C16_Witness ==
    /\ op = "load_migrations"
    /\ listing = <<FileName(VerV2, <<Ord.a>>, SqlExt),
                   FileName(VerV1, <<Ord.a>>, SqlExt),
                   FileName(VerV10, <<Ord.a>>, SqlExt)>>
    /\ Versions(migrations) = <<VerV1, VerV10, VerV2>>

\* The file names of the form <version>__<name>.sql, version and name free
\* of "__".
WellFormed ==
    { FileName(v, n, SqlExt) : v \in {VerEmpty, VerV1, VerV10, VerV2, VerV3},
                               n \in {<<Ord.a>>, <<Ord.b>>} }

\* C17: load_migrations skips the files whose name does not split into
\* exactly two parts, and loads every well-formed file: the list returned
\* holds one migration for each well-formed file and nothing else.
C17_LoadSkipsMalformed ==
    (op = "load_migrations" /\ existed) =>
        /\ Len(migrations) = Cardinality(files \cap WellFormed)
        /\ \A f \in files \cap WellFormed :
              \E k \in 1..Len(migrations) :
                  FileName(migrations[k].version, migrations[k].name, SqlExt) = f
        /\ \A k \in 1..Len(migrations) :
              FileName(migrations[k].version, migrations[k].name, SqlExt)
                  \in files

\* C17 witness: of V1__a__b.sql, V2.sql and V2__a.sql the load returned the
\* last alone.
C17_Witness ==
    /\ op = "load_migrations"
    /\ files = { FileName(VerV1, <<Ord.a>> \o SepStr \o <<Ord.b>>, SqlExt),
                 VerV2 \o SqlExt,
                 FileName(VerV2, <<Ord.a>>, SqlExt) }
    /\ Len(migrations) = 1
    /\ migrations[1].version = VerV2
    /\ migrations[1].name = <<Ord.a>>

\* C18: a load_migrations that finds no directory returns the empty list and
\* leaves the directory created; a load_migrations that follows a
\* load_migrations finds the directory and returns what it holds.
C18_MissingDirectoryProvisioned ==
    [][ op' = "load_migrations" =>
           /\ dirExists'
           /\ existed' = dirExists
           /\ ~dirExists => migrations' = <<>>
           /\ op = "load_migrations" =>
                 /\ dirExists
                 /\ migrations' = load_migrations(TRUE, files') ]_vars

\* C18 witness: a load_migrations that found no directory, returned the
\* empty list and left the directory in place.
C18_Witness ==
    /\ op = "load_migrations"
    /\ ~existed
    /\ dirExists
    /\ migrations = <<>>

\* C19: get_migration_status reports as pending_migrations the versions of
\* the loaded migrations that the applied mapping lacks, in ascending order,
\* pending_count their number, current_version the greatest applied version
\* (None when nothing is applied), latest_version the greatest loaded version
\* (None when nothing is loaded); with no migrations it reports 0, 0, 0,
\* None, None and the empty list.
C19_StatusReport ==
    op = "get_migration_status" =>
        LET r == Get(report)
            defined == Range(Versions(migrations))
            pendingAt == {k \in 1..Len(migrations) :
                             migrations[k].version \notin DOMAIN applied}
        IN /\ r.total_migrations = Len(migrations)
           /\ r.applied_count = Cardinality(DOMAIN applied)
           /\ Range(r.pending_migrations) = defined \ DOMAIN applied
           /\ Len(r.pending_migrations) = Cardinality(pendingAt)
           /\ \A j, k \in 1..Len(r.pending_migrations) :
                 j < k => ~StrLess(r.pending_migrations[k],
                                   r.pending_migrations[j])
           /\ r.pending_count = Len(r.pending_migrations)
           /\ IF DOMAIN applied = {}
              THEN r.current_version = None
              ELSE \E v \in DOMAIN applied :
                      /\ r.current_version = Some(v)
                      /\ \A w \in DOMAIN applied : ~StrLess(v, w)
           /\ IF defined = {}
              THEN r.latest_version = None
              ELSE \E v \in defined :
                      /\ r.latest_version = Some(v)
                      /\ \A w \in defined : ~StrLess(v, w)
           /\ migrations = <<>> =>
                 r = [total_migrations |-> 0, applied_count |-> 0,
                      pending_count |-> 0, current_version |-> None,
                      latest_version |-> None, pending_migrations |-> <<>>]

\* C19 witness: a report of three migrations V1, V10, V2, all pending, the
\* latest version V2 and no current version.
C19_Witness ==
    /\ op = "get_migration_status"
    /\ Get(report).total_migrations = 3
    /\ Get(report).pending_migrations = <<VerV1, VerV10, VerV2>>
    /\ Get(report).pending_count = 3
    /\ Get(report).latest_version = Some(VerV2)
    /\ Get(report).current_version = None

\* C20: the checksum of a loaded migration is the checksum of its up SQL
\* alone: loaded migrations of equal up SQL have equal checksums, whatever
\* their down SQL, names and versions.
C20_ChecksumOfUpSql ==
    op = "load_migrations" =>
        /\ \A k \in 1..Len(migrations) :
              migrations[k].checksum = calculate_checksum(migrations[k].up_sql)
        /\ \A j, k \in 1..Len(migrations) :
              migrations[j].up_sql = migrations[k].up_sql
                  => migrations[j].checksum = migrations[k].checksum

\* C20 witness: a load returned three migrations of the same up SQL whose
\* versions, names or down SQL differ, with one checksum.
C20_Witness ==
    /\ op = "load_migrations"
    /\ Len(migrations) = 3
    /\ migrations[1].version = migrations[2].version
    /\ migrations[1].name # migrations[2].name
    /\ migrations[1].down_sql # migrations[2].down_sql
    /\ migrations[2].version # migrations[3].version
    /\ migrations[2].down_sql # migrations[3].down_sql
    /\ migrations[1].up_sql = migrations[2].up_sql
    /\ migrations[2].up_sql = migrations[3].up_sql
    /\ migrations[1].checksum = migrations[2].checksum
    /\ migrations[2].checksum = migrations[3].checksum

\* C21: at every step boundary of a migrate_up or migrate_down run the
\* applied ledger is the ledger at the start of the run plus the versions the
\* run has applied so far (executed, and returned True), or minus the versions
\* it has rolled back so far.
C21_LedgerTracksSteps ==
    LET done(kind) == {trace[k].pre.version : k \in
                          {e \in Events : /\ trace[e].kind = kind
                                          /\ trace[e].executed
                                          /\ trace[e].ret}}
    IN /\ op = "migrate_up" =>
             DOMAIN get_applied_migrations
                 = DOMAIN ledger0 \cup done("apply_migration")
       /\ op = "migrate_down" =>
             DOMAIN get_applied_migrations
                 = DOMAIN ledger0 \ done("rollback_migration")

\* C22: under the external lock the runs of two callers follow one another,
\* one call at a time; no version that the migrate_up run before executed
\* successfully is executed again by the migrate_up run that follows.
C22_LockedRunsExecuteOnce ==
    op = "migrate_up" =>
        \A k \in Events :
            trace[k].executed => trace[k].pre.version \notin Range(prior_applied)

\* C24: apply_migration does not look at the status of the migration: an
\* apply that is no dry run is executed whatever the status was, a completed
\* migration included, and returns what the execution gave.
C24_ApplyUnguarded ==
    \A k \in Events :
        (trace[k].kind = "apply_migration" /\ ~trace[k].dry_run) =>
            /\ trace[k].executed
            /\ trace[k].ret = (trace[k].exc = "none")
            /\ trace[k].post.status = IF trace[k].ret THEN "completed"
                                      ELSE "failed"

\* C24 witness: a direct apply of a migration that an earlier apply had
\* completed was executed again, and failed in its execution.
C24_Witness ==
    /\ op = "apply_migration" /\ ~dry_run
    /\ trace[1].pre.status = "completed"
    /\ trace[1].pre.applied_at # None
    /\ trace[1].executed
    /\ ~trace[1].ret
    /\ trace[1].post.status = "failed"

\* C23: the checksum of a migration is validated before the migration is
\* applied: an apply that is no dry run and returned True was of a migration
\* whose checksum is the checksum of its up SQL, and a checksum that differs
\* is signalled to the caller instead.
C23_ChecksumValidated ==
    \A k \in Events :
        ( /\ trace[k].kind = "apply_migration"
          /\ ~trace[k].dry_run
          /\ trace[k].ret )
        => trace[k].pre.checksum = calculate_checksum(trace[k].pre.up_sql)

\* The migrate_up run before applied every migration of the directory, each
\* with success.
PriorRunComplete ==
    /\ prior_applied # <<>>
    /\ prior_applied = Versions(load_migrations(dirExists, files))

\* C26: after a migrate_up that applied every migration with success, a
\* migrate_up that follows applies nothing and returns (0, 0), and a
\* get_migration_status that follows reports no pending migration and a
\* current_version equal to latest_version.
C26_MigrateUpIdempotent ==
    PriorRunComplete =>
        /\ op = "migrate_up" =>
              /\ trace = <<>>
              /\ successful = 0
              /\ failed = 0
        /\ op = "get_migration_status" =>
              /\ Get(report).pending_count = 0
              /\ Get(report).pending_migrations = <<>>
              /\ Get(report).current_version = Get(report).latest_version

Reverse(seq) == [k \in 1..Len(seq) |-> seq[Len(seq) + 1 - k]]

\* Every migration of the directory has a down SQL.
AllHaveDown ==
    \A f \in files : \A k \in 1..Len(ParseFile(f)) :
        ParseFile(f)[k].down_sql # <<>>

\* C30: a migrate_up that applied its k migrations with success, followed by
\* a migrate_down(steps=k) whose rollbacks all succeed, rolls the k migrations
\* back in the reverse of the order of their applies and leaves none of them
\* in the applied ledger.
C30_RoundTrip ==
    ( /\ op = "migrate_down" /\ pc = "idle" /\ ~dry_run
      /\ PriorRunComplete
      /\ AllHaveDown
      /\ steps = Len(prior_applied)
      /\ failed = 0 )
    => /\ successful = steps
       /\ Len(trace) = steps
       /\ \A k \in Events :
             /\ trace[k].kind = "rollback_migration"
             /\ trace[k].ret
             /\ trace[k].pre.version = Reverse(prior_applied)[k]
       /\ DOMAIN get_applied_migrations \cap Range(prior_applied) = {}

Min(a, b) == IF a < b THEN a ELSE b
Max(a, b) == IF a > b THEN a ELSE b

C25_SessionStore ==
    /\ DOMAIN sessions = DOMAIN issued
    /\ \A s \in DOMAIN sessions :
          <<sessions[s].user_id, sessions[s].metadata, sessions[s].created_at>>
              = issued[s]
    /\ auth_call # None =>
          LET c == Get(auth_call)
          IN /\ c.name = "create_session" =>
                   /\ c.ret = c.session_id
                   /\ c.ret \in DOMAIN sessions
                   /\ \A s \in DOMAIN c.before \ {c.ret} :
                         s \in DOMAIN sessions /\ sessions[s] = c.before[s]
             /\ c.name = "get_session" =>
                   /\ sessions = c.before
                   /\ c.ret = IF c.session_id \in DOMAIN issued
                              THEN Some(sessions[c.session_id])
                              ELSE None
             /\ c.name = "revoke_session" =>
                   /\ c.ret = (c.session_id \in DOMAIN c.before)
                   /\ get_session(sessions, c.session_id) = None
                   /\ DOMAIN sessions = DOMAIN c.before \ {c.session_id}
                   /\ \A s \in DOMAIN sessions : sessions[s] = c.before[s]
                   /\ ~c.ret => sessions = c.before

\* C25 witness: of two sessions one was revoked with True, and the other is
\* still in the store.
C25_Witness ==
    /\ auth_call # None
    /\ Get(auth_call).name = "revoke_session"
    /\ Get(auth_call).ret
    /\ Cardinality(DOMAIN Get(auth_call).before) = 2
    /\ Cardinality(DOMAIN sessions) = 1
    /\ Get(auth_call).session_id \notin DOMAIN sessions

====
